---- MODULE Spec2Model ----
(***************************************************************************)
(* Model of agents/log-metrics.py: the Jobster agent that appends one      *)
(* metrics record per invocation to STATE_DIR/metrics.jsonl.               *)
(*                                                                         *)
(* Every invocation of main() is a process p.  Its position in main() is   *)
(* pc[p]; its local variables are config, state_dir, metrics and           *)
(* error_output.  The processes share the file system: the directory       *)
(* nodes and the content of metrics.jsonl.                                 *)
(***************************************************************************)
EXTENDS Integers, Sequences, FiniteSets, TLC

\* ------------------------------------------------------------------------
\* Bounds
\* ------------------------------------------------------------------------
NumProcs == 2
MaxPriorLines == 1

Procs == 1..NumProcs

\* ------------------------------------------------------------------------
\* Values
\* ------------------------------------------------------------------------
\* An environment variable that is not set.
Unset == "<unset>"
\* Python's None, as returned by os.environ.get('STATE_DIR').
PyNone == "<None>"
\* The empty dict / the empty list payload.
Empty == [k \in {} |-> 0]

\* JSON values (the values json.loads produces for the 'metrics' member).
JObject(members) == [kind |-> "object", n |-> 0, m |-> members]
JNumber(i) == [kind |-> "number", n |-> i, m |-> Empty]

\* A parsed CONFIG_JSON document: an object with its members, or a
\* document of another kind (members stays empty).
Document(kind, members) == [kind |-> kind, members |-> members]
NoDocument == Document("unbound", Empty)

\* Python truthiness of a JSON value ("if custom_metrics:").
Truthy(v) ==
  CASE v.kind = "object" -> DOMAIN v.m # {}
    [] v.kind = "number" -> v.n # 0
    [] OTHER -> FALSE

\* ------------------------------------------------------------------------
\* Inputs: the environment variables of an invocation
\* ------------------------------------------------------------------------
CfgEmptyObject == "{}"
CfgCpu == "{\"metrics\":{\"cpu_pct\":42}}"
CfgEmptyMetrics == "{\"metrics\":{}}"
CfgNumber == "{\"metrics\":42}"
CfgZero == "{\"metrics\":0}"
CfgArrayDoc == "[]"
CfgNotJson == "not json"

TsStartZ == "2024-01-01T00:00:00Z"
TsEndZ == "2024-01-01T00:00:10Z"
TsEndNaive == "2024-01-01T00:00:10"
TsBad == "not-a-date"

StateDir == "state/job"

\* json.loads on the configuration strings above.
json_loads(s) ==
  CASE s = CfgEmptyObject ->
         [ok |-> TRUE, value |-> Document("object", Empty), msg |-> ""]
    [] s = CfgCpu ->
         [ok |-> TRUE,
          value |-> Document("object", "metrics" :> JObject("cpu_pct" :> 42)),
          msg |-> ""]
    [] s = CfgEmptyMetrics ->
         [ok |-> TRUE,
          value |-> Document("object", "metrics" :> JObject(Empty)),
          msg |-> ""]
    [] s = CfgNumber ->
         [ok |-> TRUE,
          value |-> Document("object", "metrics" :> JNumber(42)),
          msg |-> ""]
    [] s = CfgZero ->
         [ok |-> TRUE,
          value |-> Document("object", "metrics" :> JNumber(0)),
          msg |-> ""]
    [] s = CfgArrayDoc ->
         [ok |-> TRUE, value |-> Document("array", Empty), msg |-> ""]
    [] OTHER ->
         [ok |-> FALSE, value |-> NoDocument,
          msg |-> "Expecting value: line 1 column 1 (char 0)"]

\* int() on the integer strings of the environment.
int(s) ==
  CASE s = "-1" -> [ok |-> TRUE, value |-> -1]
    [] s = "0" -> [ok |-> TRUE, value |-> 0]
    [] s = "1" -> [ok |-> TRUE, value |-> 1]
    [] s = "2" -> [ok |-> TRUE, value |-> 2]
    [] OTHER -> [ok |-> FALSE, value |-> 0]

\* str.replace('Z', '+00:00') on the timestamp strings.
replace_Z(s) ==
  CASE s = TsStartZ -> "2024-01-01T00:00:00+00:00"
    [] s = TsEndZ -> "2024-01-01T00:00:10+00:00"
    [] OTHER -> s

\* datetime.fromisoformat: seconds since 2024-01-01T00:00:00 and whether
\* the datetime carries a UTC offset (is "aware").
fromisoformat(s) ==
  CASE s = "2024-01-01T00:00:00+00:00" -> [ok |-> TRUE, sec |-> 0, aware |-> TRUE]
    [] s = "2024-01-01T00:00:10+00:00" -> [ok |-> TRUE, sec |-> 10, aware |-> TRUE]
    [] s = "2024-01-01T00:00:10" -> [ok |-> TRUE, sec |-> 10, aware |-> FALSE]
    [] OTHER -> [ok |-> FALSE, sec |-> 0, aware |-> FALSE]

\* os.environ.get(name, default)
environ_get(e, name, default) ==
  IF name \in DOMAIN e /\ e[name] # Unset THEN e[name] ELSE default

ConfigInputs ==
  {Unset, CfgEmptyObject, CfgCpu, CfgEmptyMetrics, CfgNumber, CfgZero,
   CfgArrayDoc, CfgNotJson}
StateDirInputs == {Unset, "", StateDir}
TsInputs == {"", TsBad, TsStartZ, TsEndZ, TsEndNaive}
IntInputs == {Unset, "0", "abc"}

EnvOf(cfg, sd, st, et, ec, at) ==
  [CONFIG_JSON |-> cfg, STATE_DIR |-> sd, START_TS |-> st, END_TS |-> et,
   EXIT_CODE |-> ec, ATTEMPT |-> at]

\* Every environment the orchestrator may hand to one invocation.
Envs ==
  {EnvOf(cfg, sd, st, et, ec, at) :
     cfg \in ConfigInputs, sd \in StateDirInputs,
     st \in {"", TsBad, TsStartZ}, et \in TsInputs \ {TsStartZ},
     ec \in IntInputs, at \in {Unset, "2", "abc"}}

\* The environments of the invocations that run concurrently.
ConcEnvs ==
  {EnvOf(Unset, StateDir, "", "", Unset, Unset),
   EnvOf(CfgCpu, StateDir, TsStartZ, TsEndZ, "0", "2"),
   EnvOf(CfgNumber, StateDir, TsStartZ, TsEndNaive, Unset, Unset),
   EnvOf(Unset, Unset, "", "", Unset, Unset)}

NoEnv == EnvOf(Unset, Unset, Unset, Unset, Unset, Unset)

\* ------------------------------------------------------------------------
\* State
\* ------------------------------------------------------------------------
VARIABLES
  env,           \* env[p]: the environment variables of invocation p
  pc,            \* pc[p]: the step of main() that p executes next
  config,        \* config[p]: the parsed CONFIG_JSON
  state_dir,     \* state_dir[p]: os.environ.get('STATE_DIR')
  mkstack,       \* mkstack[p]: the active calls of Path.mkdir, innermost first
  metrics,       \* metrics[p]: the metrics dict
  error_output,  \* error_output[p]: the error object about to be printed
  exc,           \* exc[p]: the last exception raised in p ("" if none)
  stdout,        \* stdout[p]: what p printed to standard output
  stderr,        \* stderr[p]: what p printed to standard error
  exit_status,   \* exit_status[p]: the exit status of p (NotExited before)
  nodes,         \* the file system: what exists at "state" and "state/job"
  file,          \* the file system: state/job/metrics.jsonl
  file0          \* the content of metrics.jsonl before the first invocation

vars ==
  <<env, pc, config, state_dir, mkstack, metrics, error_output, exc,
    stdout, stderr, exit_status, nodes, file, file0>>

NotExited == -1
NoMetrics == Empty
NoError == [status |-> "", error |-> ""]

\* ------------------------------------------------------------------------
\* The file system
\* ------------------------------------------------------------------------
DirPaths == {"state", StateDir}

\* pathlib: Path(s); the empty string is the working directory.
Path(s) == IF s = "" THEN "." ELSE s

\* pathlib: Path(path).parent
Parent(path) == IF path = StateDir THEN "state" ELSE "."

\* "absent", "dir" or "file"; the working directory always exists.
NodeKind(ns, path) == IF path = "." THEN "dir" ELSE ns[path]

\* Path.is_dir()
is_dir(ns, path) == NodeKind(ns, path) = "dir"

\* The outcomes of the system call os.mkdir(path).  Creating the directory
\* may be refused by the file system (permissions, read-only, full).
os_mkdir(ns, path) ==
  IF NodeKind(ns, Parent(path)) = "absent" THEN {"FileNotFoundError"}
  ELSE IF NodeKind(ns, Parent(path)) = "file" THEN {"NotADirectoryError"}
  ELSE IF NodeKind(ns, path) # "absent" THEN {"FileExistsError"}
  ELSE {"ok", "PermissionError"}

\* A call of Path.mkdir(parents, exist_ok) on path.
Frame(path, parents, exist_ok) ==
  [path |-> path, parents |-> parents, exist_ok |-> exist_ok,
   phase |-> "mkdir", err |-> ""]

\* mkdir without exist_ok.
MkdirExistOkFalse == FALSE

\* The arguments of the call state_path.mkdir(parents=True, exist_ok=True).
MkdirParents == TRUE
MkdirExistOk == TRUE

\* The text file: tokens, a JSON text or a newline.
JsonText(obj) == [t |-> "json", obj |-> obj]
Newline == [t |-> "nl", obj |-> Empty]

\* json.dumps(obj): one JSON text, never containing a raw newline.
json_dumps(obj) == <<JsonText(obj)>>

\* open(metrics_file, 'w'), which truncates.
OpenModeTruncate == "w"

\* The mode of open(metrics_file, 'a').
OpenMode == "a"

\* f.write(data) on a file opened with the given mode.
write(content, mode, data) ==
  IF mode = "a" THEN content \o data ELSE data

\* The outcomes of opening metrics.jsonl for append and writing one line.
\* The write of one line is taken to be atomic: it fails as a whole
\* (permissions, disk full, the path is a directory) or succeeds as a whole.
open_write(ns, dir) ==
  IF is_dir(ns, dir) THEN {"ok", "IOError"} ELSE {"IOError"}

\* The lines of a content: the token runs that a newline terminates, and
\* the unterminated rest.
RECURSIVE SplitLines(_, _)
SplitLines(content, cur) ==
  IF content = <<>> THEN [lines |-> <<>>, rest |-> cur]
  ELSE IF Head(content).t = "nl"
       THEN LET r == SplitLines(Tail(content), <<>>)
            IN  [lines |-> <<cur>> \o r.lines, rest |-> r.rest]
       ELSE SplitLines(Tail(content), Append(cur, Head(content)))

Lines(content) == SplitLines(content, <<>>).lines

\* A record left in metrics.jsonl by an earlier run of the agent.
PriorRecord ==
  [timestamp |-> "<earlier>Z", job_id |-> "unknown", run_id |-> "earlier",
   hook |-> "unknown", job_command |-> "", job_schedule |-> "",
   start_ts |-> "", end_ts |-> "", exit_code |-> -1, attempt |-> 1]

RECURSIVE PriorContent(_)
PriorContent(n) ==
  IF n = 0 THEN <<>>
  ELSE PriorContent(n - 1) \o json_dumps(PriorRecord) \o <<Newline>>

\* ------------------------------------------------------------------------
\* Initial states
\* ------------------------------------------------------------------------
InitNodes ==
  {ns \in [DirPaths -> {"absent", "dir", "file"}] :
     ns[StateDir] # "absent" => ns["state"] = "dir"}

InitFile(ns) ==
  IF ns[StateDir] = "dir"
  THEN {[exists |-> FALSE, content |-> <<>>]}
         \cup {[exists |-> TRUE, content |-> PriorContent(n)] :
                 n \in 0..MaxPriorLines}
  ELSE {[exists |-> FALSE, content |-> <<>>]}

\* The orchestrator gives every invocation its own RUN_ID.
WithRunId(e, p) == e @@ ("RUN_ID" :> ToString(p))

InitLocals ==
  /\ config = [p \in Procs |-> NoDocument]
  /\ state_dir = [p \in Procs |-> PyNone]
  /\ mkstack = [p \in Procs |-> <<>>]
  /\ metrics = [p \in Procs |-> NoMetrics]
  /\ error_output = [p \in Procs |-> NoError]
  /\ exc = [p \in Procs |-> ""]
  /\ stdout = [p \in Procs |-> <<>>]
  /\ stderr = [p \in Procs |-> <<>>]
  /\ exit_status = [p \in Procs |-> NotExited]

InitFileSystem ==
  /\ nodes \in InitNodes
  /\ file \in InitFile(nodes)
  /\ file0 = file.content

\* One invocation, with any environment.
Init ==
  /\ \E p \in Procs, e \in Envs :
       /\ env = [q \in Procs |-> WithRunId(IF q = p THEN e ELSE NoEnv, q)]
       /\ pc = [q \in Procs |-> IF q = p THEN "ParseConfig" ELSE "NotInvoked"]
  /\ InitLocals
  /\ InitFileSystem

\* All invocations at once, on the same STATE_DIR.
ConcInit ==
  /\ \E es \in [Procs -> ConcEnvs] :
       env = [q \in Procs |-> WithRunId(es[q], q)]
  /\ pc = [q \in Procs |-> "ParseConfig"]
  /\ InitLocals
  /\ InitFileSystem

\* ------------------------------------------------------------------------
\* Steps of main()
\* ------------------------------------------------------------------------
\* print(json.dumps(obj), file=stream)
Printed(obj) == [json |-> obj]
\* The interpreter's report of an uncaught exception (not a JSON object).
Traceback(e) == [traceback |-> e]

\* An exception that no handler catches: the interpreter prints the
\* traceback to stderr and the process ends with status 1.
Uncaught(p, e) ==
  /\ exc' = [exc EXCEPT ![p] = e]
  /\ stderr' = [stderr EXCEPT ![p] = Append(@, Traceback(e))]
  /\ exit_status' = [exit_status EXCEPT ![p] = 1]
  /\ pc' = [pc EXCEPT ![p] = "Terminated"]

\* ParseConfig with a handler that falls back to the default configuration
\* instead of reporting the parse error.
ParseConfigLenient(p) ==
  /\ pc[p] = "ParseConfig"
  /\ LET config_json == environ_get(env[p], "CONFIG_JSON", "{}")
         r == json_loads(config_json)
     IN  /\ config' =
              [config EXCEPT ![p] =
                 IF r.ok THEN r.value ELSE Document("object", Empty)]
         /\ exc' = [exc EXCEPT ![p] = IF r.ok THEN @ ELSE "JSONDecodeError"]
         /\ pc' = [pc EXCEPT ![p] = "ValidateStateDir"]
  /\ UNCHANGED <<env, state_dir, mkstack, metrics, error_output, stdout,
                 stderr, exit_status, nodes, file, file0>>

\* Lines 20-30: read and parse CONFIG_JSON.
ParseConfig(p) ==
  /\ pc[p] = "ParseConfig"
  /\ LET config_json == environ_get(env[p], "CONFIG_JSON", "{}")
         r == json_loads(config_json)
     IN  IF r.ok
         THEN /\ config' = [config EXCEPT ![p] = r.value]
              /\ pc' = [pc EXCEPT ![p] = "ValidateStateDir"]
              /\ UNCHANGED <<error_output, exc>>
         ELSE /\ exc' = [exc EXCEPT ![p] = "JSONDecodeError"]
              /\ error_output' =
                   [error_output EXCEPT ![p] =
                      [status |-> "error",
                       error |-> "Invalid CONFIG_JSON: " \o r.msg]]
              /\ pc' = [pc EXCEPT ![p] = "ReportError"]
              /\ UNCHANGED config
  /\ UNCHANGED <<env, state_dir, mkstack, metrics, stdout, stderr,
                 exit_status, nodes, file, file0>>

\* The test "if state_dir is None", which lets the empty string through.
StateDirIsNone(sd) == sd = PyNone

\* "if not state_dir": None and the empty string are falsy.
StateDirMissing(sd) == sd = PyNone \/ sd = ""

\* Lines 32-44: read STATE_DIR, require it, and call state_path.mkdir.
ValidateStateDir(p) ==
  /\ pc[p] = "ValidateStateDir"
  /\ LET sd == environ_get(env[p], "STATE_DIR", PyNone)
     IN  /\ state_dir' = [state_dir EXCEPT ![p] = sd]
         /\ IF StateDirMissing(sd)
            THEN /\ error_output' =
                      [error_output EXCEPT ![p] =
                         [status |-> "error",
                          error |-> "STATE_DIR environment variable not set"]]
                 /\ pc' = [pc EXCEPT ![p] = "ReportError"]
                 /\ UNCHANGED mkstack
            ELSE /\ mkstack' =
                      [mkstack EXCEPT ![p] =
                         <<Frame(Path(sd), MkdirParents, MkdirExistOk)>>]
                 /\ pc' = [pc EXCEPT ![p] = "EnsureDirectory"]
                 /\ UNCHANGED error_output
  /\ UNCHANGED <<env, config, metrics, exc, stdout, stderr, exit_status,
                 nodes, file, file0>>

\* Path.mkdir returns: the caller goes on.  A caller that was waiting for
\* parent.mkdir(parents=True, exist_ok=True) calls
\* self.mkdir(mode, parents=False, exist_ok=exist_ok); main() goes on to
\* build the record.
MkdirReturn(p) ==
  LET rest == Tail(mkstack[p])
  IN  IF rest = <<>>
      THEN /\ mkstack' = [mkstack EXCEPT ![p] = <<>>]
           /\ pc' = [pc EXCEPT ![p] = "BuildRecord"]
      ELSE /\ mkstack' =
                [mkstack EXCEPT ![p] =
                   <<Frame(Head(rest).path, FALSE, Head(rest).exist_ok)>>
                     \o Tail(rest)]
           /\ UNCHANGED pc

\* Line 44, Path.mkdir: "try: os.mkdir(self, mode)" and the choice of the
\* except clause.
OsMkdir(p) ==
  /\ pc[p] = "EnsureDirectory"
  /\ mkstack[p] # <<>>
  /\ LET top == Head(mkstack[p])
     IN  /\ top.phase = "mkdir"
         /\ \E outcome \in os_mkdir(nodes, top.path) :
              CASE outcome = "ok" ->
                     /\ nodes' = [nodes EXCEPT ![top.path] = "dir"]
                     /\ MkdirReturn(p)
                     /\ UNCHANGED <<exc, stderr, exit_status>>
                [] outcome = "FileNotFoundError" ->
                     \* except FileNotFoundError
                     IF ~top.parents \/ Parent(top.path) = top.path
                     THEN /\ Uncaught(p, outcome)
                          /\ UNCHANGED <<mkstack, nodes>>
                     ELSE /\ mkstack' =
                               [mkstack EXCEPT ![p] =
                                  <<Frame(Parent(top.path), TRUE, TRUE),
                                    [top EXCEPT !.phase = "parent"]>>
                                    \o Tail(mkstack[p])]
                          /\ exc' = [exc EXCEPT ![p] = outcome]
                          /\ UNCHANGED <<pc, stderr, exit_status, nodes>>
                [] OTHER ->
                     \* except OSError: "if not exist_ok or ..."
                     IF ~top.exist_ok
                     THEN /\ Uncaught(p, outcome)
                          /\ UNCHANGED <<mkstack, nodes>>
                     ELSE /\ mkstack' =
                               [mkstack EXCEPT ![p] =
                                  <<[top EXCEPT !.phase = "isdir",
                                                !.err = outcome]>>
                                    \o Tail(mkstack[p])]
                          /\ exc' = [exc EXCEPT ![p] = outcome]
                          /\ UNCHANGED <<pc, stderr, exit_status, nodes>>
  /\ UNCHANGED <<env, config, state_dir, metrics, error_output, stdout,
                 file, file0>>

\* Line 44, Path.mkdir: "... or not self.is_dir(): raise" after an OSError.
MkdirIsDir(p) ==
  /\ pc[p] = "EnsureDirectory"
  /\ mkstack[p] # <<>>
  /\ LET top == Head(mkstack[p])
     IN  /\ top.phase = "isdir"
         /\ IF is_dir(nodes, top.path)
            THEN /\ MkdirReturn(p)
                 /\ UNCHANGED <<exc, stderr, exit_status>>
            ELSE /\ Uncaught(p, top.err)
                 /\ UNCHANGED mkstack
  /\ UNCHANGED <<env, config, state_dir, metrics, error_output, stdout,
                 nodes, file, file0>>

\* dict.get(key, default) on the parsed configuration (an object).
config_get(cfg, key, default) ==
  IF key \in DOMAIN cfg.members THEN cfg.members[key] ELSE default

\* The assignment of custom without the test of custom_metrics.
AddCustomAlways(m, custom_metrics) == ("custom" :> custom_metrics) @@ m

\* Lines 60-63: "if custom_metrics: metrics['custom'] = custom_metrics".
AddCustom(m, custom_metrics) ==
  IF Truthy(custom_metrics) THEN ("custom" :> custom_metrics) @@ m ELSE m

\* Lines 47-58: the metrics dict, given the two parsed integers.
BaseMetrics(e, exit_code, attempt) ==
  [timestamp |-> "<utcnow>" \o "Z",
   job_id |-> environ_get(e, "JOB_ID", "unknown"),
   run_id |-> environ_get(e, "RUN_ID", "unknown"),
   hook |-> environ_get(e, "HOOK", "unknown"),
   job_command |-> environ_get(e, "JOB_COMMAND", ""),
   job_schedule |-> environ_get(e, "JOB_SCHEDULE", ""),
   start_ts |-> environ_get(e, "START_TS", ""),
   end_ts |-> environ_get(e, "END_TS", ""),
   exit_code |-> exit_code,
   attempt |-> attempt]

\* Lines 46-63: build the metrics dict and add the custom metrics.
\* int() raises ValueError on a malformed integer and config.get raises
\* AttributeError when the configuration is not a JSON object; neither is
\* caught.
BuildRecord(p) ==
  /\ pc[p] = "BuildRecord"
  /\ LET exit_code == int(environ_get(env[p], "EXIT_CODE", "-1"))
         attempt == int(environ_get(env[p], "ATTEMPT", "1"))
     IN  IF ~exit_code.ok \/ ~attempt.ok
         THEN /\ Uncaught(p, "ValueError")
              /\ UNCHANGED metrics
         ELSE IF config[p].kind # "object"
         THEN /\ Uncaught(p, "AttributeError")
              /\ metrics' =
                   [metrics EXCEPT ![p] =
                      BaseMetrics(env[p], exit_code.value, attempt.value)]
         ELSE /\ metrics' =
                   [metrics EXCEPT ![p] =
                      AddCustom(
                        BaseMetrics(env[p], exit_code.value, attempt.value),
                        config_get(config[p], "metrics", JObject(Empty)))]
              /\ pc' = [pc EXCEPT ![p] = "ComputeDuration"]
              /\ UNCHANGED <<exc, stderr, exit_status>>
  /\ UNCHANGED <<env, config, state_dir, mkstack, error_output, stdout,
                 nodes, file, file0>>

\* Line 71: "except (ValueError, AttributeError)".
DurationCaught == {"ValueError", "AttributeError"}

\* Lines 68-70: parse both timestamps and subtract.  fromisoformat raises
\* ValueError on a string it cannot parse; the subtraction of an aware and
\* a naive datetime raises TypeError.
Duration(start_ts, end_ts) ==
  LET start == fromisoformat(replace_Z(start_ts))
      end == fromisoformat(replace_Z(end_ts))
  IN  IF ~start.ok THEN [raised |-> "ValueError", sec |-> 0]
      ELSE IF ~end.ok THEN [raised |-> "ValueError", sec |-> 0]
      ELSE IF start.aware # end.aware THEN [raised |-> "TypeError", sec |-> 0]
      ELSE [raised |-> "", sec |-> end.sec - start.sec]

\* Lines 65-72: attach duration_sec when both timestamps are there.
ComputeDuration(p) ==
  /\ pc[p] = "ComputeDuration"
  /\ LET m == metrics[p]
     IN  IF m.start_ts # "" /\ m.end_ts # ""
         THEN LET d == Duration(m.start_ts, m.end_ts)
              IN  IF d.raised = ""
                  THEN /\ metrics' =
                            [metrics EXCEPT ![p] =
                               ("duration_sec" :> d.sec) @@ m]
                       /\ pc' = [pc EXCEPT ![p] = "AppendRecord"]
                       /\ UNCHANGED <<exc, stderr, exit_status>>
                  ELSE IF d.raised \in DurationCaught
                  THEN /\ exc' = [exc EXCEPT ![p] = d.raised]
                       /\ pc' = [pc EXCEPT ![p] = "AppendRecord"]
                       /\ UNCHANGED <<metrics, stderr, exit_status>>
                  ELSE /\ Uncaught(p, d.raised)
                       /\ UNCHANGED metrics
         ELSE /\ pc' = [pc EXCEPT ![p] = "AppendRecord"]
              /\ UNCHANGED <<metrics, exc, stderr, exit_status>>
  /\ UNCHANGED <<env, config, state_dir, mkstack, error_output, stdout,
                 nodes, file, file0>>

\* Line 75: state_path / 'metrics.jsonl'
MetricsFile(sd) ==
  IF Path(sd) = "." THEN "metrics.jsonl" ELSE Path(sd) \o "/metrics.jsonl"

\* The write without a handler.
WriteCaughtNothing == {}

\* Line 79: "except IOError".
WriteCaught == {"IOError"}

\* Lines 74-85: append the record as one line to metrics.jsonl.
AppendRecord(p) ==
  /\ pc[p] = "AppendRecord"
  /\ \E outcome \in open_write(nodes, Path(state_dir[p])) :
       IF outcome = "ok"
       THEN /\ file' =
                 [exists |-> TRUE,
                  content |->
                    write(file.content, OpenMode,
                          json_dumps(metrics[p]) \o <<Newline>>)]
            /\ pc' = [pc EXCEPT ![p] = "ReportSuccess"]
            /\ UNCHANGED <<error_output, exc, stderr, exit_status>>
       ELSE IF outcome \in WriteCaught
       THEN /\ exc' = [exc EXCEPT ![p] = outcome]
            /\ error_output' =
                 [error_output EXCEPT ![p] =
                    [status |-> "error",
                     error |-> "Failed to write metrics: " \o outcome]]
            /\ pc' = [pc EXCEPT ![p] = "ReportError"]
            /\ UNCHANGED <<file, stderr, exit_status>>
       ELSE /\ Uncaught(p, outcome)
            /\ UNCHANGED <<file, error_output>>
  /\ UNCHANGED <<env, config, state_dir, mkstack, metrics, stdout, nodes,
                 file0>>

\* Lines 88-95: the success object.
SuccessOutput(sd) ==
  [status |-> "ok",
   metrics |-> [logged |-> 1, file |-> MetricsFile(sd)],
   notes |-> "Metrics appended to " \o MetricsFile(sd)]

\* Lines 87-97: print the success object and exit 0.
ReportSuccess(p) ==
  /\ pc[p] = "ReportSuccess"
  /\ stdout' = [stdout EXCEPT ![p] = Append(@, Printed(SuccessOutput(state_dir[p])))]
  /\ exit_status' = [exit_status EXCEPT ![p] = 0]
  /\ pc' = [pc EXCEPT ![p] = "Terminated"]
  /\ UNCHANGED <<env, config, state_dir, mkstack, metrics, error_output,
                 exc, stderr, nodes, file, file0>>

\* ReportError that ends with sys.exit(0).
ReportErrorExitZero(p) ==
  /\ pc[p] = "ReportError"
  /\ stderr' = [stderr EXCEPT ![p] = Append(@, Printed(error_output[p]))]
  /\ exit_status' = [exit_status EXCEPT ![p] = 0]
  /\ pc' = [pc EXCEPT ![p] = "Terminated"]
  /\ UNCHANGED <<env, config, state_dir, mkstack, metrics, error_output,
                 exc, stdout, nodes, file, file0>>

\* ReportError that prints without "file=sys.stderr".
ReportErrorToStdout(p) ==
  /\ pc[p] = "ReportError"
  /\ stdout' = [stdout EXCEPT ![p] = Append(@, Printed(error_output[p]))]
  /\ exit_status' = [exit_status EXCEPT ![p] = 1]
  /\ pc' = [pc EXCEPT ![p] = "Terminated"]
  /\ UNCHANGED <<env, config, state_dir, mkstack, metrics, error_output,
                 exc, stderr, nodes, file, file0>>

\* Lines 29-30, 39-40, 84-85: print the error object to stderr and exit 1.
ReportError(p) ==
  /\ pc[p] = "ReportError"
  /\ stderr' = [stderr EXCEPT ![p] = Append(@, Printed(error_output[p]))]
  /\ exit_status' = [exit_status EXCEPT ![p] = 1]
  /\ pc' = [pc EXCEPT ![p] = "Terminated"]
  /\ UNCHANGED <<env, config, state_dir, mkstack, metrics, error_output,
                 exc, stdout, nodes, file, file0>>

\* One step of invocation p.
Step(p) ==
  \/ ParseConfig(p)
  \/ ValidateStateDir(p)
  \/ OsMkdir(p)
  \/ MkdirIsDir(p)
  \/ BuildRecord(p)
  \/ ComputeDuration(p)
  \/ AppendRecord(p)
  \/ ReportSuccess(p)
  \/ ReportError(p)

Next == \E p \in Procs : Step(p)

\* One invocation.
Spec == Init /\ [][Next]_vars

\* One invocation that the operating system keeps running until it exits.
FairSpec == Spec /\ \A p \in Procs : WF_vars(Step(p))

\* Concurrent invocations on the same STATE_DIR.
ConcSpec == ConcInit /\ [][Next]_vars

\* ------------------------------------------------------------------------
\* Type invariant
\* ------------------------------------------------------------------------
Steps ==
  {"NotInvoked", "ParseConfig", "ValidateStateDir", "EnsureDirectory",
   "BuildRecord", "ComputeDuration", "AppendRecord", "ReportSuccess",
   "ReportError", "Terminated"}

TypeOK ==
  /\ pc \in [Procs -> Steps]
  /\ exit_status \in [Procs -> {NotExited, 0, 1}]
  /\ nodes \in [DirPaths -> {"absent", "dir", "file"}]
  /\ file.exists \in BOOLEAN

\* ------------------------------------------------------------------------
\* Vocabulary of the properties
\* ------------------------------------------------------------------------
Terminated(p) == pc[p] = "Terminated"

\* p ended with an uncaught exception e.
Crashed(p, e) == Terminated(p) /\ Traceback(e) \in {stderr[p][i] : i \in DOMAIN stderr[p]}

AnyCrash(p) == \E i \in DOMAIN stderr[p] : "traceback" \in DOMAIN stderr[p][i]

\* p has appended its line (it is past AppendRecord on the success path).
HasAppended(p) ==
  pc[p] = "ReportSuccess" \/ (Terminated(p) /\ exit_status[p] = 0)

\* The tokens of a content that p wrote.
TokensOf(content, p) ==
  {i \in DOMAIN content :
     content[i].t = "json" /\ content[i].obj.run_id = ToString(p)}

\* The complete lines of metrics.jsonl that hold exactly the record of p.
RecordLinesOf(p) ==
  {i \in DOMAIN Lines(file.content) :
     Lines(file.content)[i] = <<JsonText(metrics[p])>>}

\* The inputs of p, read as the program documents them.
ConfigText(p) == environ_get(env[p], "CONFIG_JSON", "{}")
ConfigParses(p) == json_loads(ConfigText(p)).ok
ConfigIsObject(p) ==
  ConfigParses(p) /\ json_loads(ConfigText(p)).value.kind = "object"
StateDirGiven(p) == environ_get(env[p], "STATE_DIR", "") # ""
IntsWellFormed(p) ==
  /\ int(environ_get(env[p], "EXIT_CODE", "-1")).ok
  /\ int(environ_get(env[p], "ATTEMPT", "1")).ok
TsParses(ts) == ts # "" /\ fromisoformat(replace_Z(ts)).ok
TsWellFormed(ts) == ts = "" \/ TsParses(ts)
StartTs(p) == environ_get(env[p], "START_TS", "")
EndTs(p) == environ_get(env[p], "END_TS", "")

\* The file system refused p a directory or the write.
FsRefused(p) ==
  \/ \E e \in {"PermissionError", "NotADirectoryError", "FileExistsError",
               "FileNotFoundError"} : Crashed(p, e)
  \/ exc[p] = "IOError"

\* ------------------------------------------------------------------------
\* C1
\* ------------------------------------------------------------------------
\* C1: an invocation whose CONFIG_JSON is a valid JSON document (or unset),
\* whose STATE_DIR is set and non-empty and whose optional variables are
\* unset or well-formed appends exactly one well-formed JSON line and exits
\* with status 0.  The claim is read in its favour: the configuration is a
\* JSON object and the file system refuses nothing.
C1_OneLineExitZero ==
  \A p \in Procs :
    (/\ Terminated(p)
     /\ ConfigIsObject(p)
     /\ StateDirGiven(p)
     /\ IntsWellFormed(p)
     /\ TsWellFormed(StartTs(p)) /\ TsWellFormed(EndTs(p))
     /\ ~FsRefused(p))
    => /\ exit_status[p] = 0
       /\ Cardinality(RecordLinesOf(p)) = 1
       /\ Cardinality(TokensOf(file.content, p)) = 1

\* ------------------------------------------------------------------------
\* C2
\* ------------------------------------------------------------------------
\* C2: on the handled paths an invocation ends either with exactly one
\* complete record line appended, the success object printed and status 0,
\* or with nothing appended, an error object printed and a non-zero status;
\* a line is in the file only on the success path.
C2_NoPartialSuccess ==
  \A p \in Procs :
    /\ (Terminated(p) /\ ~AnyCrash(p)) =>
         \/ /\ exit_status[p] = 0
            /\ Cardinality(RecordLinesOf(p)) = 1
            /\ Cardinality(TokensOf(file.content, p)) = 1
            /\ stdout[p] = <<Printed(SuccessOutput(state_dir[p]))>>
         \/ /\ exit_status[p] # 0
            /\ TokensOf(file.content, p) = {}
            /\ Len(stderr[p]) = 1
            /\ stderr[p][1] = Printed(error_output[p])
            /\ error_output[p].status = "error"
    /\ TokensOf(file.content, p) # {} => HasAppended(p)

\* An invocation whose write failed has ended on the error path.
C2_Witness ==
  \E p \in Procs :
    /\ Terminated(p)
    /\ exc[p] = "IOError"
    /\ file.content = file0
    /\ exit_status[p] = 1

\* ------------------------------------------------------------------------
\* C3
\* ------------------------------------------------------------------------
IsPrefix(a, b) == Len(a) <= Len(b) /\ SubSeq(b, 1, Len(a)) = a

\* C3: metrics.jsonl is append-only: every step leaves the earlier content
\* as a prefix of the later content, and the file holds exactly one more
\* line than at the start for every invocation that has appended.
C3_AppendOnly ==
  /\ [][IsPrefix(file.content, file'.content)]_vars
  /\ [](Len(Lines(file.content)) =
          Len(Lines(file0)) + Cardinality({p \in Procs : HasAppended(p)}))

\* Two invocations have appended to a file that already held a line.
C3_Witness ==
  /\ file0 # <<>>
  /\ Cardinality({p \in Procs : Terminated(p) /\ exit_status[p] = 0}) >= 2
  /\ Len(file.content) > Len(file0)

\* ------------------------------------------------------------------------
\* C4
\* ------------------------------------------------------------------------
StateDirError ==
  [status |-> "error", error |-> "STATE_DIR environment variable not set"]

\* C4: when CONFIG_JSON parses and STATE_DIR is unset or empty, the
\* invocation prints the STATE_DIR error object to stderr, exits non-zero,
\* and none of its steps changes the file system.
C4_MissingStateDir ==
  /\ [](\A p \in Procs :
          (Terminated(p) /\ ConfigParses(p) /\ ~StateDirGiven(p)) =>
            /\ stderr[p] = <<Printed(StateDirError)>>
            /\ stdout[p] = <<>>
            /\ exit_status[p] # NotExited /\ exit_status[p] # 0)
  /\ [][\A p \in Procs :
          (ConfigParses(p) /\ ~StateDirGiven(p) /\ Step(p)) =>
            UNCHANGED <<nodes, file>>]_vars

\* An invocation with an empty STATE_DIR has ended.
C4_Witness ==
  \E p \in Procs :
    /\ Terminated(p)
    /\ ConfigParses(p)
    /\ env[p].STATE_DIR = ""
    /\ Len(stderr[p]) = 1

\* ------------------------------------------------------------------------
\* C5
\* ------------------------------------------------------------------------
\* C5: when CONFIG_JSON is not valid JSON the invocation exits non-zero
\* with an error that starts with "Invalid CONFIG_JSON", and it does so
\* before any other step: it never reads STATE_DIR, never calls mkdir,
\* never builds a record and never changes the file system.
C5_InvalidConfig ==
  /\ [](\A p \in Procs :
          (pc[p] # "NotInvoked" /\ ~ConfigParses(p)) =>
            /\ pc[p] \in {"ParseConfig", "ReportError", "Terminated"}
            /\ state_dir[p] = PyNone
            /\ mkstack[p] = <<>>
            /\ metrics[p] = NoMetrics
            /\ Terminated(p) =>
                 /\ exit_status[p] = 1
                 /\ stdout[p] = <<>>
                 /\ stderr[p] =
                      <<Printed([status |-> "error",
                                 error |-> "Invalid CONFIG_JSON: "
                                             \o json_loads(ConfigText(p)).msg])>>)
  /\ [][\A p \in Procs :
          (~ConfigParses(p) /\ Step(p)) => UNCHANGED <<nodes, file>>]_vars

\* An invocation with a bad CONFIG_JSON and a good STATE_DIR has ended, and
\* the directory is still missing.
C5_Witness ==
  \E p \in Procs :
    /\ Terminated(p)
    /\ ~ConfigParses(p)
    /\ env[p].STATE_DIR = StateDir
    /\ nodes[StateDir] = "absent"

\* ------------------------------------------------------------------------
\* C6
\* ------------------------------------------------------------------------
\* p ended in one of the three handled failures.
HandledFailure(p) ==
  /\ Terminated(p)
  /\ \/ ~ConfigParses(p)
     \/ ConfigParses(p) /\ ~StateDirGiven(p)
     \/ exc[p] = "IOError"

PastDuration(p) ==
  /\ metrics[p] # NoMetrics
  /\ pc[p] \notin {"BuildRecord", "ComputeDuration"}
  /\ ~Crashed(p, "AttributeError")

BothParse(p) == TsParses(StartTs(p)) /\ TsParses(EndTs(p))

\* C7: the record carries duration_sec exactly when START_TS and END_TS
\* are both non-empty and both parse; then it equals end minus start in
\* seconds; in every other case it is omitted; and ComputeDuration never
\* ends the invocation with an error or a crash.
C7_Duration ==
  \A p \in Procs :
    PastDuration(p) =>
      /\ ~AnyCrash(p)
      /\ "duration_sec" \in DOMAIN metrics[p] <=> BothParse(p)
      /\ BothParse(p) =>
           metrics[p].duration_sec =
             fromisoformat(replace_Z(EndTs(p))).sec
               - fromisoformat(replace_Z(StartTs(p))).sec
      /\ \A i \in TokensOf(file.content, p) :
           file.content[i].obj = metrics[p]

\* ------------------------------------------------------------------------
\* C8
\* ------------------------------------------------------------------------
\* The value of the 'metrics' member of the parsed configuration of p, and
\* whether the configuration has one.
HasMetricsMember(p) ==
  ConfigIsObject(p) /\ "metrics" \in DOMAIN json_loads(ConfigText(p)).value.members
MetricsMember(p) == json_loads(ConfigText(p)).value.members["metrics"]

HasNonEmptyMapping(p) ==
  /\ HasMetricsMember(p)
  /\ MetricsMember(p).kind = "object"
  /\ DOMAIN MetricsMember(p).m # {}

\* C8 as claimed: the appended record has the key custom exactly when the
\* parsed configuration has a non-empty metrics mapping, and then custom is
\* that mapping; with no metrics key, an empty mapping or a metrics value
\* that is not a mapping, the record has no custom key.
C8_CustomOnlyMapping ==
  \A p \in Procs :
    \A i \in TokensOf(file.content, p) :
      LET rec == file.content[i].obj
      IN  /\ "custom" \in DOMAIN rec <=> HasNonEmptyMapping(p)
          /\ HasNonEmptyMapping(p) => rec.custom = MetricsMember(p)

\* C8 as amended: the appended record has the key custom exactly when the
\* parsed configuration has a metrics member whose value is truthy (a
\* non-empty mapping, but also a non-zero number), and then custom is that
\* value unchanged; with no metrics key or a falsy value (empty mapping,
\* zero) the record has no custom key.
C8_CustomIfTruthy ==
  \A p \in Procs :
    \A i \in TokensOf(file.content, p) :
      LET rec == file.content[i].obj
          attached == HasMetricsMember(p) /\ Truthy(MetricsMember(p))
      IN  /\ "custom" \in DOMAIN rec <=> attached
          /\ attached => rec.custom = MetricsMember(p)

\* A record with the configured mapping as custom is in the file.
C8_Witness ==
  \E p \in Procs :
    \E i \in TokensOf(file.content, p) :
      /\ "custom" \in DOMAIN file.content[i].obj
      /\ file.content[i].obj.custom = JObject("cpu_pct" :> 42)

\* ------------------------------------------------------------------------
\* C9
\* ------------------------------------------------------------------------
\* The linear order of the steps.
Linear ==
  {<<"ParseConfig", "ValidateStateDir">>,
   <<"ValidateStateDir", "EnsureDirectory">>,
   <<"EnsureDirectory", "EnsureDirectory">>,
   <<"EnsureDirectory", "BuildRecord">>,
   <<"BuildRecord", "ComputeDuration">>,
   <<"ComputeDuration", "AppendRecord">>,
   <<"AppendRecord", "ReportSuccess">>,
   <<"ReportSuccess", "Terminated">>,
   <<"ReportError", "Terminated">>}

\* The transitions of an invocation, given the steps that have the
\* structured error transition and the steps that an uncaught exception
\* ends.
Transitions(reporting, crashing) ==
  Linear \cup {<<a, "ReportError">> : a \in reporting}
         \cup {<<a, "Terminated">> : a \in crashing}

\* Every step of p is one of the transitions, Terminate(0) is entered from
\* ReportSuccess only and Terminate(nonzero) from anywhere else.
Follows(p, transitions) ==
  pc'[p] # pc[p] \/ Step(p) =>
    /\ <<pc[p], pc'[p]>> \in transitions
    /\ pc'[p] = "Terminated" =>
         (exit_status'[p] = 0 <=> pc[p] = "ReportSuccess")
    /\ pc'[p] = "Terminated" => exit_status'[p] \in {0, 1}
    /\ pc'[p] = "ReportSuccess" => TokensOf(file'.content, p) # {}

AllSteps ==
  {"ParseConfig", "ValidateStateDir", "EnsureDirectory", "BuildRecord",
   "ComputeDuration", "AppendRecord", "ReportSuccess", "ReportError"}

C10_Concurrent ==
  LET split == SplitLines(file.content, <<>>)
      n0 == Len(Lines(file0))
      appended == {p \in Procs : HasAppended(p)}
  IN  /\ split.rest = <<>>
      /\ Len(split.lines) = n0 + Cardinality(appended)
      /\ SubSeq(split.lines, 1, n0) = Lines(file0)
      /\ \A p \in appended : Cardinality(RecordLinesOf(p)) = 1
      /\ \A p \in Procs \ appended : TokensOf(file.content, p) = {}
      /\ \A p \in Procs :
           /\ ~Crashed(p, "FileNotFoundError")
           /\ Crashed(p, "FileExistsError") =>
                \E d \in DirPaths : nodes[d] = "file"

\* Two invocations created the directories in a race and both appended.
C10_Witness ==
  \E p, q \in Procs :
    /\ p # q
    /\ exit_status[p] = 0 /\ exit_status[q] = 0
    /\ exc[p] = "FileNotFoundError"
    /\ exc[q] = "FileExistsError"
    /\ Len(Lines(file.content)) = Len(Lines(file0)) + 2

====
